---- MODULE Spec2Model ----
(***************************************************************************)
(* Process lifecycle and output capture of cmdeck (src/main.go, the        *)
(* version with HasRun, lines 356-647).  One ProcessState per command key, *)
(* the tap handler of the run/stop button on the UI thread, and per start  *)
(* three goroutines: the waiter (cmd.Run) and one captureOutput per        *)
(* stream.  Every Mutex.Lock()..Unlock() region of the source contains no  *)
(* blocking call, so each region is one atomic step.  The unlocked read of *)
(* state.Running at line 516 is a step of its own on the stop path, where  *)
(* the waiter can change Running before the lock is taken.                 *)
(*                                                                         *)
(* Specifications:                                                         *)
(*   Spec       the handlers and goroutines, MaxRuns starts of any key;    *)
(*   LogSpec    Spec with the logs button, restarts at rest;               *)
(*   Detail     Lock() and the locked region as separate steps, with       *)
(*              createRowWidget and the logs button; FairDetail adds the   *)
(*              fairness of the scheduler and of the Mutex;                *)
(*   KeySpec    loading a Config and building its rows.                    *)
(***************************************************************************)
EXTENDS Naturals, Sequences, FiniteSets, TLC

\* Number of start attempts (exec.Command objects created) in one behaviour.
MaxRuns == 2

Runs == 1..MaxRuns

\* The commands of the configuration (Config.Tabs), by their row key, with
\* what the operating system does when they are run.
Commands ==
  [ hello |-> [Exec |-> "echo", Args |-> <<"hello">>,
               stdout |-> <<"hello">>, stderr |-> <<>>,
               spawnErr |-> "", exitErr |-> ""],
    oops  |-> [Exec |-> "ls", Args |-> <<"-l", "/nope">>,
               stdout |-> <<>>, stderr |-> <<"ls: /nope: No such file">>,
               spawnErr |-> "", exitErr |-> "exit status 2"],
    ghost |-> [Exec |-> "nocmd", Args |-> <<>>,
               stdout |-> <<>>, stderr |-> <<>>,
               spawnErr |-> "exec: \"nocmd\": executable file not found in $PATH",
               exitErr |-> ""] ]

Keys == DOMAIN Commands

Streams == {"stdout", "stderr"}

Sites == {"start", "stop", "exit"}

NoKey == "-"

VARIABLES
  processStates,  \* key -> [Cmd, Running, Output, HasRun]; Cmd = 0 is nil
  nruns,          \* exec.Command objects created so far
  runKey,         \* run -> the key whose tap handler created it
  proc,           \* run -> OS process: "unstarted", "alive", "exited", "failed"
  killed,         \* run -> SIGKILL was delivered to the live process
  waiter,         \* run -> position of the goroutine of lines 555-567
  capture,        \* run -> stream -> [pc, pos] of captureOutput
  ui,             \* the UI thread: [pc, key, run] of the tap handler
  notes,          \* run -> the fyne.Do(updateButtonState) hand-offs made for it,
                  \* counted by call site: "start" (552), "stop" (523), "exit" (566)
  mutex,          \* key -> the task inside a Lock()..Unlock() region of the state
  shown,          \* the copy of Output the logs button passed to showLogsDialog
  rows,           \* key -> row widgets built for it (createRowWidget calls)
  conf            \* the loaded Config and the TabsData made from it

\* What the steps of the goroutines and of the tap handler leave alone.
aux == <<mutex, shown, rows, conf>>

vars == <<processStates, nruns, runKey, proc, killed, waiter, capture, ui,
          notes, mutex, shown, rows, conf>>

(***************************************************************************)
(* Formatting                                                              *)
(***************************************************************************)
RECURSIVE JoinArgs(_)
JoinArgs(args) ==
  IF args = <<>> THEN ""
  ELSE IF Len(args) = 1 THEN args[1]
  ELSE args[1] \o " " \o JoinArgs(Tail(args))

\* fmt's %v of a []string
FmtArgs(args) == "[" \o JoinArgs(args) \o "]"

Line(r, src, text) == [run |-> r, src |-> src, text |-> text]

NoLogs == Line(0, "init", "No logs available. Run the process to see logs.")

StartLine(k) ==
  "Starting process: " \o Commands[k].Exec \o " " \o FmtArgs(Commands[k].Args)

PipeErrText == "pipe2: too many open files"

PipeErrLine(which) == "Error creating " \o which \o " pipe: " \o PipeErrText

ReadErrText == "read |0: file already closed"

ReadErrLine == "Error reading output: " \o ReadErrText

Prefix(s) == IF s = "stderr" THEN "ERR: " ELSE ""

\* The error cmd.Run() returns for run r ("" is nil).
RunErr(r) ==
  IF proc[r] = "failed" THEN Commands[runKey[r]].spawnErr
  ELSE IF killed[r] THEN "signal: killed"
  ELSE Commands[runKey[r]].exitErr

ExitLine(r) ==
  IF RunErr(r) # "" THEN "Process exited with error: " \o RunErr(r)
  ELSE "Process completed successfully"

\* What the process of run r writes to stream s.
StreamOf(r, s) == Commands[runKey[r]][s]

\* The parent's ends of the pipes of run r are closed: cmd.Run() has returned.
PipesClosed(r) == waiter[r] \in {"write", "done"}

Text(log) == [i \in 1..Len(log) |-> log[i].text]

(***************************************************************************)
(* Initial state: main has built every row (createRowWidget).              *)
(***************************************************************************)
NewProcessState ==
  [Cmd |-> 0, Running |-> FALSE, Output |-> <<NoLogs>>, HasRun |-> FALSE]

\* A task, as the holder of a Mutex.
Task(task, r, s) == [task |-> task, run |-> r, stream |-> s]

Free == Task("none", 0, "-")

NoSnapshot == [key |-> NoKey, lines |-> <<>>]

NoConfig == [Tabs |-> <<>>, tabsData |-> <<>>, built |-> {}]

\* No command has been started, no handler is running.
Idle ==
  /\ nruns = 0
  /\ runKey = [r \in Runs |-> NoKey]
  /\ proc = [r \in Runs |-> "unstarted"]
  /\ killed = [r \in Runs |-> FALSE]
  /\ waiter = [r \in Runs |-> "none"]
  /\ capture = [r \in Runs |-> [s \in Streams |-> [pc |-> "none", pos |-> 0]]]
  /\ ui = [pc |-> "idle", key |-> NoKey, run |-> 0]
  /\ notes = [r \in Runs |-> [by \in Sites |-> 0]]
  /\ mutex = [k \in Keys |-> Free]
  /\ shown = NoSnapshot

Init ==
  /\ processStates = [k \in Keys |-> NewProcessState]
  /\ rows = [k \in Keys |-> 1]
  /\ conf = NoConfig
  /\ Idle

(***************************************************************************)
(* The UI thread                                                           *)
(***************************************************************************)
\* updateButtonState: what the observer shows when a hand-off runs it.
updateButtonState(k) ==
  [status |-> IF processStates[k].Running THEN "Running" ELSE "Stopped",
   logs   |-> processStates[k].Running \/ processStates[k].HasRun]

\* fyne.Do(updateButtonState) called at site by, for run r (0: no Cmd).
Notify(r, by) ==
  IF r = 0 THEN notes ELSE [notes EXCEPT ![r][by] = @ + 1]

\* A stop branch has acted on the Cmd of run r.
Stopped(r) == notes[r]["stop"] > 0

\* The reset without HasRun.
ResetForStartNoHasRun(st, r, k) ==
  [st EXCEPT !.Output = <<Line(r, "start", StartLine(k))>>]

\* Lines 526-527: the log reset to the starting marker, and HasRun.
ResetForStart(st, r, k) ==
  [st EXCEPT !.Output = <<Line(r, "start", StartLine(k))>>, !.HasRun = TRUE]

\* A stop that also writes to the log.
MarkStoppedLogged(st) ==
  [st EXCEPT !.Running = FALSE,
             !.Output = Append(@, Line(st.Cmd, "stop", "Process stopped"))]

\* Line 521.
MarkStopped(st) == [st EXCEPT !.Running = FALSE]

\* A launch that leaves Cmd and Running for later.
MarkStartedSkipped(st, r) == st

\* Lines 548-549.
MarkStarted(st, r) == [st EXCEPT !.Cmd = r, !.Running = TRUE]

\* Lines 534 and 543.
AppendPipeError(st, r, which) ==
  [st EXCEPT !.Output = Append(@, Line(r, "pipe", PipeErrLine(which)))]

\* actionButton.OnTapped: the unlocked read of state.Running selects the
\* branch.  Only the UI thread sets Running, so the start branch goes on to
\* its first locked region (the log reset and HasRun) with Running still false.
OnTapped(k) ==
  /\ ui.pc = "idle"
  /\ IF processStates[k].Running
       THEN /\ ui' = [pc |-> "stop", key |-> k, run |-> 0]
            /\ UNCHANGED <<processStates, nruns, runKey>>
       ELSE /\ nruns < MaxRuns
            /\ nruns' = nruns + 1
            /\ runKey' = [runKey EXCEPT ![nruns + 1] = k]
            /\ processStates' = [processStates EXCEPT
                  ![k] = ResetForStart(@, nruns + 1, k)]
            /\ ui' = [pc |-> "pipes", key |-> k, run |-> nruns + 1]
  /\ UNCHANGED <<proc, killed, waiter, capture, notes>>

\* The stop branch.  cmd.Process is written by cmd.Start in the waiter
\* goroutine without the lock, so for a live process the test of line 518
\* sees it or not.
StopBranch(k) ==
  /\ ui.pc = "stop" /\ ui.key = k
  /\ LET r == processStates[k].Cmd IN
       /\ IF r # 0 /\ proc[r] = "alive"
            THEN \E sees \in BOOLEAN :
                   killed' = [killed EXCEPT ![r] = @ \/ sees]
            ELSE UNCHANGED killed
       /\ notes' = Notify(r, "stop")
  /\ processStates' = [processStates EXCEPT ![k] = MarkStopped(@)]
  /\ ui' = [pc |-> "idle", key |-> NoKey, run |-> 0]
  /\ UNCHANGED <<nruns, runKey, proc, waiter, capture>>

\* exec.Command, then StdoutPipe or StderrPipe fails: the start is abandoned.
StartPipeFail(k) ==
  /\ ui.pc = "pipes" /\ ui.key = k
  /\ \E which \in Streams :
       processStates' = [processStates EXCEPT
                           ![k] = AppendPipeError(@, ui.run, which)]
  /\ ui' = [pc |-> "idle", key |-> NoKey, run |-> 0]
  /\ UNCHANGED <<nruns, runKey, proc, killed, waiter, capture, notes>>

\* Both pipes exist: Cmd and Running are set, the notification is handed to
\* fyne.Do and the three goroutines are launched.
StartLaunch(k) ==
  /\ ui.pc = "pipes" /\ ui.key = k
  /\ processStates' = [processStates EXCEPT ![k] = MarkStarted(@, ui.run)]
  /\ notes' = Notify(ui.run, "start")
  /\ waiter' = [waiter EXCEPT ![ui.run] = "run"]
  /\ capture' = [capture EXCEPT ![ui.run] =
                   [s \in Streams |-> [pc |-> "scan", pos |-> 0]]]
  /\ ui' = [pc |-> "idle", key |-> NoKey, run |-> 0]
  /\ UNCHANGED <<nruns, runKey, proc, killed>>

(***************************************************************************)
(* The waiter goroutine and the OS process                                 *)
(***************************************************************************)
\* cmd.Run() starts the process; a failed start returns at once.
WaiterStart(r) ==
  /\ waiter[r] = "run"
  /\ IF Commands[runKey[r]].spawnErr = ""
       THEN proc' = [proc EXCEPT ![r] = "alive"] /\ waiter' = [waiter EXCEPT ![r] = "wait"]
       ELSE proc' = [proc EXCEPT ![r] = "failed"] /\ waiter' = [waiter EXCEPT ![r] = "write"]
  /\ UNCHANGED <<processStates, nruns, runKey, killed, capture, ui, notes>>

\* The process ends, by itself or by the signal.
ProcExit(r) ==
  /\ proc[r] = "alive"
  /\ proc' = [proc EXCEPT ![r] = "exited"]
  /\ UNCHANGED <<processStates, nruns, runKey, killed, waiter, capture, ui,
                 notes>>

\* cmd.Run() returns after the exit; Wait has closed the pipes.
WaiterWait(r) ==
  /\ waiter[r] = "wait"
  /\ proc[r] = "exited"
  /\ waiter' = [waiter EXCEPT ![r] = "write"]
  /\ UNCHANGED <<processStates, nruns, runKey, proc, killed, capture, ui,
                 notes>>

\* Lines 559-564.
MarkExited(st, r) ==
  [st EXCEPT !.Running = FALSE,
             !.Output = Append(@, Line(r, "exit", ExitLine(r)))]

\* A waiter that makes no hand-off.
WaiterWriteSilent(r) ==
  /\ waiter[r] = "write"
  /\ processStates' = [processStates EXCEPT ![runKey[r]] = MarkExited(@, r)]
  /\ waiter' = [waiter EXCEPT ![r] = "done"]
  /\ UNCHANGED <<nruns, runKey, proc, killed, capture, ui, notes>>

\* The locked region of lines 558-565, then fyne.Do(updateButtonState):
\* the hand-off touches nothing but the notification history, so it is
\* taken with the write.
WaiterWrite(r) ==
  /\ waiter[r] = "write"
  /\ processStates' = [processStates EXCEPT ![runKey[r]] = MarkExited(@, r)]
  /\ notes' = Notify(r, "exit")
  /\ waiter' = [waiter EXCEPT ![r] = "done"]
  /\ UNCHANGED <<nruns, runKey, proc, killed, capture, ui>>

(***************************************************************************)
(* captureOutput                                                           *)
(***************************************************************************)
\* A lookup by a key that is not the task's own.
CaptureKeyFixed(r) == "hello"

\* The key captureOutput looks its state up by.
CaptureKey(r) == runKey[r]

\* Lines 615-619.
AppendLine(st, r, s, line) ==
  [st EXCEPT !.Output = Append(@, Line(r, s, Prefix(s) \o line))]

\* Line 628.
AppendReadError(st, r) ==
  [st EXCEPT !.Output = Append(@, Line(r, "read", ReadErrLine))]

\* scanner.Scan() yields the next line and it is appended under the lock.
\* After the pipes were closed a line is still yielded if the scanner had
\* buffered it.
CaptureLine(r, s) ==
  /\ capture[r][s].pc = "scan"
  /\ proc[r] \in {"alive", "exited"}
  /\ capture[r][s].pos < Len(StreamOf(r, s))
  /\ processStates' = [processStates EXCEPT ![CaptureKey(r)] =
        AppendLine(@, r, s, StreamOf(r, s)[capture[r][s].pos + 1])]
  /\ capture' = [capture EXCEPT ![r][s].pos = @ + 1]
  /\ UNCHANGED <<nruns, runKey, proc, killed, waiter, ui, notes>>

\* End of stream: the process has gone (or was never started) and every
\* line was read.
CaptureEOF(r, s) ==
  /\ capture[r][s].pc = "scan"
  /\ proc[r] \in {"exited", "failed"}
  /\ capture[r][s].pos = Len(StreamOf(r, s)) \/ proc[r] = "failed"
  /\ capture' = [capture EXCEPT ![r][s].pc = "done"]
  /\ UNCHANGED <<processStates, nruns, runKey, proc, killed, waiter, ui,
                 notes>>

\* A read on a pipe that cmd.Run() has closed fails: scanner.Err() is
\* appended and the lines not yet read are lost.
CaptureErr(r, s) ==
  /\ capture[r][s].pc = "scan"
  /\ PipesClosed(r)
  /\ processStates' = [processStates EXCEPT ![CaptureKey(r)] = AppendReadError(@, r)]
  /\ capture' = [capture EXCEPT ![r][s].pc = "done"]
  /\ UNCHANGED <<nruns, runKey, proc, killed, waiter, ui, notes>>

(***************************************************************************)
(* Specification                                                           *)
(***************************************************************************)
\* Every locked region is one step; every row has been built.
Next ==
  \/ \E k \in Keys : OnTapped(k) /\ UNCHANGED aux
  \/ \E k \in Keys : StopBranch(k) /\ UNCHANGED aux
  \/ \E k \in Keys : StartPipeFail(k) /\ UNCHANGED aux
  \/ \E k \in Keys : StartLaunch(k) /\ UNCHANGED aux
  \/ \E r \in Runs : WaiterStart(r) /\ UNCHANGED aux
  \/ \E r \in Runs : ProcExit(r) /\ UNCHANGED aux
  \/ \E r \in Runs : WaiterWait(r) /\ UNCHANGED aux
  \/ \E r \in Runs : WaiterWrite(r) /\ UNCHANGED aux
  \/ \E r \in Runs : \E s \in Streams : CaptureLine(r, s) /\ UNCHANGED aux
  \/ \E r \in Runs : \E s \in Streams : CaptureEOF(r, s) /\ UNCHANGED aux
  \/ \E r \in Runs : \E s \in Streams : CaptureErr(r, s) /\ UNCHANGED aux

Spec == Init /\ [][Next]_vars

TypeOK ==
  /\ nruns \in 0..MaxRuns
  /\ ui.pc \in {"idle", "stop", "pipes"}
  /\ \A k \in Keys : /\ processStates[k].Cmd \in 0..nruns
                      /\ processStates[k].Output # <<>>
  /\ \A r \in Runs : /\ proc[r] \in {"unstarted", "alive", "exited", "failed"}
                      /\ waiter[r] \in {"none", "run", "wait", "write", "done"}

(***************************************************************************)
(* Vocabulary of the properties                                            *)
(***************************************************************************)
Started(r) == runKey[r] # NoKey

\* The goroutines of run r were launched.
Launched(r) == waiter[r] # "none"

\* The start attempt r was abandoned at the pipe creation.
Abandoned(r) == Started(r) /\ ~Launched(r) /\ ui.run # r

\* The waiter and both capture tasks of run r have finished.
RunDone(r) ==
  waiter[r] = "done" /\ \A s \in Streams : capture[r][s].pc = "done"

\* The run whose start reset the log of k last (0: never started).
LogOwner(k) == processStates[k].Output[1].run

RunsOf(k) == {r \in Runs : runKey[r] = k}

LinesOf(log, r, src) ==
  {i \in 1..Len(log) : log[i].run = r /\ log[i].src = src}

Last(log) == log[Len(log)]

Live(k) == {r \in RunsOf(k) : proc[r] = "alive"}

(***************************************************************************)
(* createRowWidget and the logs button                                     *)
(***************************************************************************)
\* Row widgets built for one key in one behaviour.
MaxRows == 2

Count(f, k) == IF k \in DOMAIN f THEN f[k] ELSE 0

\* A lookup that installs a new state on every call.
GetOrCreateFresh(reg, k) ==
  [j \in DOMAIN reg \cup {k} |-> IF j = k THEN NewProcessState ELSE reg[j]]

\* Lines 478-482: the state of key k is created if it does not exist.
GetOrCreate(reg, k) ==
  IF k \in DOMAIN reg THEN reg ELSE reg @@ (k :> NewProcessState)

\* createRowWidget for a row whose processKey is k, on the UI thread.  The
\* fyne.Do(updateButtonState) of line 578 belongs to no run and touches no
\* field of the state.
createRowWidget(k) ==
  /\ ui.pc = "idle"
  /\ Count(rows, k) < MaxRows
  /\ processStates' = GetOrCreate(processStates, k)
  /\ rows' = IF k \in DOMAIN rows THEN [rows EXCEPT ![k] = @ + 1]
             ELSE rows @@ (k :> 1)
  /\ UNCHANGED <<nruns, runKey, proc, killed, waiter, capture, ui, notes,
                 mutex, shown>>

\* A copy into a slice of length 0.
SnapshotEmpty(st) == <<>>

\* Lines 572-573: make([]string, len(state.Output)) and copy.
Snapshot(st) == st.Output

\* updateButtonState enables the logs button when it sees Running or HasRun
\* (lines 504-508); it runs when a hand-off was made after a start of k.
LogsEnabled(k) == \E r \in RunsOf(k) : \E by \in Sites : notes[r][by] > 0

\* logsButton.OnTapped: the locked region of lines 571-575, then
\* showLogsDialog with the copy.
LogsTapped(k) ==
  /\ ui.pc = "idle"
  /\ LogsEnabled(k)
  /\ shown' = [key |-> k, lines |-> Snapshot(processStates[k])]
  /\ UNCHANGED <<processStates, nruns, runKey, proc, killed, waiter, capture,
                 ui, notes>>

(***************************************************************************)
(* The Mutex of a ProcessState.  In the specification Detail a locked      *)
(* region is two steps: Lock, which waits until the Mutex is free, and the *)
(* region with its Unlock.  The rows are built by createRowWidget.         *)
(***************************************************************************)
\* Start attempts in one behaviour of Detail.
MaxDetailRuns == 1

DetailKeys == {"hello", "ghost"}

DetailRuns == 1..MaxDetailRuns

UI == Task("ui", 0, "-")

WaiterOf(r) == Task("waiter", r, "-")

CaptureOf(r, s) == Task("capture", r, s)

Tasks ==
  {UI} \cup {WaiterOf(r) : r \in DetailRuns}
       \cup {CaptureOf(r, s) : r \in DetailRuns, s \in Streams}

Holds(t) == \E k \in DOMAIN mutex : mutex[k] = t

\* A waiter that locks before cmd.Run() has returned.
WaiterLockPointEarly(r) == waiter[r] \in {"wait", "write"}

\* Line 558: the waiter locks after cmd.Run() has returned.
WaiterLockPoint(r) == waiter[r] = "write"

\* scanner.Scan() has returned true: a line is there to append.
LineReady(r, s) ==
  /\ proc[r] \in {"alive", "exited"}
  /\ capture[r][s].pos < Len(StreamOf(r, s))

\* Lines 614 and 627: captureOutput locks after Scan has returned a line,
\* or after the loop when scanner.Err() is not nil.
CaptureLockPoint(r, s) ==
  /\ capture[r][s].pc = "scan"
  /\ LineReady(r, s) \/ PipesClosed(r)

\* Line 525, after the read of line 516 found Running false.
StartPoint(k) ==
  ui.pc = "idle" /\ ~processStates[k].Running /\ nruns < MaxDetailRuns

\* Line 571.
LogsPoint(k) == ui.pc = "idle" /\ LogsEnabled(k)

\* Lines 517, 532, 541 and 547.
HandlerPoint(k) == ui.pc \in {"stop", "pipes"} /\ ui.key = k

UILockPoint(k) ==
  /\ k \in DOMAIN processStates
  /\ StartPoint(k) \/ LogsPoint(k) \/ HandlerPoint(k)

\* Task t has reached a Lock() of the Mutex of key k.
LockPoint(t, k) ==
  IF t.task = "ui" THEN UILockPoint(k)
  ELSE IF t.task = "waiter"
    THEN WaiterLockPoint(t.run) /\ runKey[t.run] = k
  ELSE /\ CaptureLockPoint(t.run, t.stream)
       /\ CaptureKey(t.run) = k

\* sync.Mutex.Lock.
Lock(t, k) ==
  /\ mutex[k] = Free
  /\ ~Holds(t)
  /\ LockPoint(t, k)
  /\ mutex' = [mutex EXCEPT ![k] = t]
  /\ UNCHANGED <<processStates, nruns, runKey, proc, killed, waiter, capture,
                 ui, notes, shown, rows, conf>>

\* sync.Mutex.Unlock at the end of the region of t.
Unlock(t, k) ==
  /\ mutex[k] = t
  /\ mutex' = [mutex EXCEPT ![k] = Free]
  /\ UNCHANGED <<rows, conf>>

\* createRowWidget outside the handlers.
BuildRow(k) ==
  /\ ~Holds(UI)
  /\ createRowWidget(k)
  /\ UNCHANGED conf

\* The read of state.Running at line 516 that selects the stop branch: no
\* lock is taken for it.
TapStop(k) ==
  /\ ~Holds(UI)
  /\ k \in DOMAIN processStates
  /\ processStates[k].Running
  /\ OnTapped(k)
  /\ UNCHANGED aux

\* The steps of the UI thread for key k that take no lock.
UIOpen(k) ==
  \/ BuildRow(k)
  \/ TapStop(k)

\* Lines 525-528.
ResetRegion(k) ==
  /\ k \in DOMAIN processStates
  /\ Unlock(UI, k)
  /\ StartPoint(k)
  /\ OnTapped(k)
  /\ UNCHANGED shown

\* Lines 517-523.
StopRegion(k) ==
  /\ Unlock(UI, k)
  /\ StopBranch(k)
  /\ UNCHANGED shown

\* Lines 532-536 and 541-545.
PipeFailRegion(k) ==
  /\ Unlock(UI, k)
  /\ StartPipeFail(k)
  /\ UNCHANGED shown

\* Lines 547-567.
LaunchRegion(k) ==
  /\ Unlock(UI, k)
  /\ StartLaunch(k)
  /\ UNCHANGED shown

\* Lines 571-576.
LogsRegion(k) ==
  /\ k \in DOMAIN processStates
  /\ Unlock(UI, k)
  /\ LogsTapped(k)

\* The locked regions of the UI thread for key k.
UIRegion(k) ==
  \/ ResetRegion(k)
  \/ StopRegion(k)
  \/ PipeFailRegion(k)
  \/ LaunchRegion(k)
  \/ LogsRegion(k)

\* cmd.Run() in the waiter of run r.
WaiterOpen(r) ==
  \/ ~Holds(WaiterOf(r)) /\ WaiterStart(r) /\ UNCHANGED aux
  \/ ~Holds(WaiterOf(r)) /\ WaiterWait(r) /\ UNCHANGED aux

\* Lines 558-566.
WaiterRegion(r) ==
  /\ Started(r)
  /\ Unlock(WaiterOf(r), runKey[r])
  /\ WaiterWrite(r)
  /\ UNCHANGED shown

\* The end of the stream: the loop and the function end without a lock.
CaptureOpen(r, s) ==
  /\ ~Holds(CaptureOf(r, s))
  /\ CaptureEOF(r, s)
  /\ UNCHANGED aux

\* Lines 614-620.
LineRegion(r, s) ==
  /\ Started(r)
  /\ Unlock(CaptureOf(r, s), CaptureKey(r))
  /\ CaptureLine(r, s)
  /\ UNCHANGED shown

\* Lines 627-629.
ErrRegion(r, s) ==
  /\ Started(r)
  /\ Unlock(CaptureOf(r, s), CaptureKey(r))
  /\ CaptureErr(r, s)
  /\ UNCHANGED shown

CaptureRegion(r, s) ==
  \/ LineRegion(r, s)
  \/ ErrRegion(r, s)

DetailInit ==
  /\ processStates = [k \in {} |-> NewProcessState]
  /\ rows = [k \in {} |-> 0]
  /\ conf = NoConfig
  /\ Idle

DetailNext ==
  \/ \E k \in DetailKeys : UIOpen(k)
  \/ \E k \in DetailKeys : UIRegion(k)
  \/ \E t \in Tasks : \E k \in DetailKeys : Lock(t, k)
  \/ \E r \in DetailRuns : WaiterOpen(r)
  \/ \E r \in DetailRuns : ProcExit(r) /\ UNCHANGED aux
  \/ \E r \in DetailRuns : WaiterRegion(r)
  \/ \E r \in DetailRuns : \E s \in Streams : CaptureOpen(r, s)
  \/ \E r \in DetailRuns : \E s \in Streams : CaptureRegion(r, s)

Detail == DetailInit /\ [][DetailNext]_vars

\* The Go scheduler runs every runnable goroutine, a Mutex is handed to a
\* goroutine that waits for it, and the UI thread finishes a handler it has
\* begun.  Nothing obliges the user to tap or a process to exit.
DetailFairness ==
  /\ \A r \in DetailRuns :
       /\ WF_vars(WaiterOpen(r))
       /\ WF_vars(WaiterRegion(r))
       /\ SF_vars(\E k \in DetailKeys : Lock(WaiterOf(r), k))
  /\ \A r \in DetailRuns : \A s \in Streams :
       /\ WF_vars(CaptureOpen(r, s))
       /\ WF_vars(CaptureRegion(r, s))
       /\ SF_vars(\E k \in DetailKeys : Lock(CaptureOf(r, s), k))
  /\ \A k \in DetailKeys :
       /\ WF_vars(UIRegion(k))
       /\ SF_vars(HandlerPoint(k) /\ Lock(UI, k))

FairDetail == Detail /\ DetailFairness

(***************************************************************************)
(* The configuration and the key of a row.  In the specification KeySpec   *)
(* a Config of two commands is loaded, convertConfigToTabsData makes its   *)
(* rows and createRowWidget is called for each row.                        *)
(***************************************************************************)
TabNames == {"dev", "ops"}

CmdNames == {"run", "run-go"}

Execs == {"test", "go-test"}

ArgLists == {<<>>, <<"a b">>, <<"a", "b">>}

\* One command of Config.Tabs: Tabs[tab][name] = Command{Exec, Args}.
Entries == [tab : TabNames, name : CmdNames, Exec : Execs, Args : ArgLists]

\* The keys of a map are distinct: two commands differ in tab or in name.
Configs ==
  {c \in Entries \X Entries : c[1].tab # c[2].tab \/ c[1].name # c[2].name}

\* Line 451.
Description(command) == command.Exec \o " " \o FmtArgs(command.Args)

\* Lines 449-453.
RowData(e) ==
  [Tab |-> e.tab, Title |-> e.name, Description |-> Description(e)]

\* Line 477.
processKey(row) == row.Title \o "-" \o row.Description

convertConfigToTabsData ==
  /\ conf.Tabs # <<>>
  /\ conf.tabsData = <<>>
  /\ conf' = [conf EXCEPT
                !.tabsData = [i \in 1..Len(conf.Tabs) |-> RowData(conf.Tabs[i])]]
  /\ UNCHANGED <<processStates, nruns, runKey, proc, killed, waiter, capture,
                 ui, notes, mutex, shown, rows>>

\* createTabContent calls createRowWidget for row i.
createTabContent(i) ==
  /\ i \in 1..Len(conf.tabsData)
  /\ i \notin conf.built
  /\ createRowWidget(processKey(conf.tabsData[i]))
  /\ conf' = [conf EXCEPT !.built = @ \cup {i}]

KeyInit ==
  /\ processStates = [k \in {} |-> NewProcessState]
  /\ rows = [k \in {} |-> 0]
  /\ conf \in {[Tabs |-> c, tabsData |-> <<>>, built |-> {}] : c \in Configs}
  /\ Idle

KeyNext ==
  \/ convertConfigToTabsData
  \/ \E i \in 1..Len(conf.tabsData) : createTabContent(i)

KeySpec == KeyInit /\ [][KeyNext]_vars

(***************************************************************************)
(* The specification LogSpec: the steps of Spec and the logs button, for a *)
(* user who starts a command again only when the tasks of its earlier runs *)
(* have ended.                                                             *)
(***************************************************************************)
\* Every earlier start of k has ended: abandoned, or all its tasks done.
Quiet(k) == \A r \in RunsOf(k) : RunDone(r) \/ Abandoned(r)

\* A tap on the run/stop button of k: a stop, or a start at rest.
TapAtRest(k) ==
  /\ processStates[k].Running \/ Quiet(k)
  /\ OnTapped(k)
  /\ UNCHANGED aux

LogNext ==
  \/ \E k \in DetailKeys : TapAtRest(k)
  \/ \E k \in DetailKeys : LogsTapped(k) /\ UNCHANGED <<mutex, rows, conf>>
  \/ \E k \in DetailKeys : StopBranch(k) /\ UNCHANGED aux
  \/ \E k \in DetailKeys : StartPipeFail(k) /\ UNCHANGED aux
  \/ \E k \in DetailKeys : StartLaunch(k) /\ UNCHANGED aux
  \/ \E r \in Runs : WaiterStart(r) /\ UNCHANGED aux
  \/ \E r \in Runs : ProcExit(r) /\ UNCHANGED aux
  \/ \E r \in Runs : WaiterWait(r) /\ UNCHANGED aux
  \/ \E r \in Runs : WaiterWrite(r) /\ UNCHANGED aux
  \/ \E r \in Runs : \E s \in Streams : CaptureLine(r, s) /\ UNCHANGED aux
  \/ \E r \in Runs : \E s \in Streams : CaptureEOF(r, s) /\ UNCHANGED aux
  \/ \E r \in Runs : \E s \in Streams : CaptureErr(r, s) /\ UNCHANGED aux

LogSpec == Init /\ [][LogNext]_vars

(***************************************************************************)
(* C1.  At most one live OS process per command identity: in every         *)
(* reachable state the processes alive for one key number at most one.     *)
(***************************************************************************)
C1_AtMostOneLiveProcess ==
  \A k \in Keys : Cardinality(Live(k)) <= 1

(***************************************************************************)
(* C2.  For the current run of a handle (the run of state.Cmd), Running is *)
(* true whenever that run's process is alive and no stop has acted on it;  *)
(* no task of an earlier run makes it false.                               *)
(***************************************************************************)
C2_RunningWhileAliveUnstopped ==
  \A k \in Keys :
    LET r == processStates[k].Cmd IN
      (r # 0 /\ proc[r] = "alive" /\ ~Stopped(r)) => processStates[k].Running

(***************************************************************************)
(* C3.  Running implies HasRun in every reachable state, and no step sets  *)
(* HasRun back to false.                                                   *)
(***************************************************************************)
RunningImpliesHasRun ==
  \A k \in Keys : processStates[k].Running => processStates[k].HasRun

HasRunSticky ==
  \A k \in Keys : processStates[k].HasRun => processStates[k].HasRun'

\* C3: Running implies HasRun always, and HasRun is never cleared.
C3_HasRun == []RunningImpliesHasRun /\ [][HasRunSticky]_vars

\* A handle that ran and finished keeps HasRun while another one is running.
C3_Witness ==
  \E k, j \in Keys :
    /\ k # j
    /\ processStates[k].HasRun /\ ~processStates[k].Running
    /\ processStates[k].Cmd # 0 /\ RunDone(processStates[k].Cmd)
    /\ processStates[j].Running /\ processStates[j].HasRun

(***************************************************************************)
(* C4.  A run that exits with status 0 and is not stopped: once its waiter *)
(* and both capture tasks have finished, the log is the starting marker,   *)
(* every captured line, then the success marker as the last line, and      *)
(* Running is false.  Stated for a run that is the only one of its key.    *)
(***************************************************************************)
OnlyRun(r) == RunsOf(runKey[r]) = {r}

IsStdout(e) == e.src = "stdout"

IsStderr(e) == e.src = "stderr"

\* The log holds every line of both streams of run r, in stream order.
CapturedAll(log, r) ==
  /\ Text(SelectSeq(log, IsStdout)) = StreamOf(r, "stdout")
  /\ Text(SelectSeq(log, IsStderr)) =
       [i \in 1..Len(StreamOf(r, "stderr")) |-> "ERR: " \o StreamOf(r, "stderr")[i]]

SucceededDone(r) ==
  /\ Started(r) /\ OnlyRun(r) /\ RunDone(r)
  /\ proc[r] = "exited" /\ RunErr(r) = "" /\ ~Stopped(r)

\* C4: the log of a finished, unstopped exit-0 run ends with the success
\* marker after every captured line, and Running is false.
C4_SuccessLogComplete ==
  \A r \in Runs :
    SucceededDone(r) =>
      LET st == processStates[runKey[r]] IN
        /\ ~st.Running
        /\ st.Output[1].text = StartLine(runKey[r])
        /\ Last(st.Output).text = "Process completed successfully"
        /\ CapturedAll(st.Output, r)
        /\ Len(st.Output) =
             2 + Len(StreamOf(r, "stdout")) + Len(StreamOf(r, "stderr"))
        /\ runKey[r] = "hello" =>
             Text(st.Output) = <<"Starting process: echo [hello]", "hello",
                                 "Process completed successfully">>

(***************************************************************************)
(* C5.  A stop on a running handle sets Running to false in the handler,   *)
(* leaves the log and the process alone and hands off one notification;    *)
(* the waiter of the stopped run then appends exactly one terminal line to *)
(* the log of that run (the log until the next start resets it), and       *)
(* Running stays false while the stopped run is the handle's Cmd.          *)
(***************************************************************************)
StopEffect ==
  \A k \in Keys :
    (StopBranch(k) /\ processStates[k].Running) =>
      LET r == processStates[k].Cmd IN
        /\ processStates' = [processStates EXCEPT ![k].Running = FALSE]
        /\ notes' = [notes EXCEPT ![r]["stop"] = @ + 1]
        /\ UNCHANGED <<proc, waiter, capture>>

WaiterWriteEffect ==
  \A r \in Runs :
    WaiterWrite(r) =>
      LET k == runKey[r] IN
        /\ ~processStates'[k].Running
        /\ Len(processStates'[k].Output) = Len(processStates[k].Output) + 1
        /\ Last(processStates'[k].Output) = Line(r, "exit", ExitLine(r))

StoppedRunLog ==
  \A r \in Runs :
    Stopped(r) =>
      LET st == processStates[runKey[r]] IN
        /\ st.Cmd = r => ~st.Running
        /\ LogOwner(runKey[r]) = r =>
             Cardinality(LinesOf(st.Output, r, "exit")) =
               IF waiter[r] = "done" THEN 1 ELSE 0

C6_StopOnlyWhenRunning ==
  [][\A k \in Keys :
       StopBranch(k) =>
         \/ processStates[k].Running
         \/ UNCHANGED <<processStates, killed, notes>>]_vars

(***************************************************************************)
(* C7.  Commands with distinct keys do not touch each other: every line of *)
(* a log was produced by a run of that log's own key, and a step of a      *)
(* command (its tap handler, waiter, process or capture tasks) leaves the  *)
(* ProcessState of every other key unchanged.                              *)
(***************************************************************************)
OwnLines ==
  \A k \in Keys :
    \A i \in 1..Len(processStates[k].Output) :
      LET e == processStates[k].Output[i] IN e.run = 0 \/ runKey[e.run] = k

KeyStep(a) ==
  \/ OnTapped(a) \/ StopBranch(a) \/ StartPipeFail(a) \/ StartLaunch(a)
  \/ \E r \in RunsOf(a) :
       \/ WaiterStart(r) \/ ProcExit(r) \/ WaiterWait(r) \/ WaiterWrite(r)
       \/ \E s \in Streams :
            CaptureLine(r, s) \/ CaptureEOF(r, s) \/ CaptureErr(r, s)

OthersUnchanged ==
  \A a \in Keys :
    KeyStep(a) =>
      \A b \in Keys \ {a} : processStates'[b] = processStates[b]

\* C7: logs hold only lines of their own key, and a step of one command
\* leaves every other ProcessState unchanged.
C7_Isolation == []OwnLines /\ [][OthersUnchanged]_vars

\* Two commands alive at once, one of them stopped, each log with a
\* captured line of its own process.
C7_Witness ==
  \E r, q \in Runs :
    /\ runKey[r] # runKey[q]
    /\ proc[r] = "alive" /\ proc[q] = "alive"
    /\ Stopped(r) /\ ~Stopped(q)
    /\ LinesOf(processStates[runKey[r]].Output, r, "stdout") # {}
    /\ LinesOf(processStates[runKey[q]].Output, q, "stderr") # {}

(***************************************************************************)
(* C8.  A start whose spawn fails: Running is never true for it and no     *)
(* notification is handed off at its start; the OS error text ends up in   *)
(* the command's own log.                                                  *)
(***************************************************************************)
C8_SpawnFailureStaysStopped ==
  \A r \in Runs :
    (Started(r) /\ Commands[runKey[r]].spawnErr # "") =>
      LET st == processStates[runKey[r]] IN
        /\ st.Cmd = r => ~st.Running
        /\ notes[r]["start"] = 0
        /\ (waiter[r] = "done" /\ LogOwner(runKey[r]) = r) =>
             \E i \in LinesOf(st.Output, r, "exit") :
               st.Output[i].text =
                 "Process exited with error: " \o Commands[runKey[r]].spawnErr

(***************************************************************************)
(* C9.  An abandoned start (pipe creation failed) launches nothing, leaves *)
(* Running false, appends the diagnostic line, and does not affect HasRun: *)
(* while every start attempt of a key was abandoned, HasRun still has its  *)
(* initial value.                                                          *)
(***************************************************************************)
C9_AbandonedStart ==
  \A r \in Runs :
    Abandoned(r) =>
      LET k == runKey[r]
          st == processStates[k] IN
        /\ proc[r] = "unstarted"
        /\ \A s \in Streams : capture[r][s].pc = "none"
        /\ LogOwner(k) = r =>
             /\ ~st.Running
             /\ Cardinality(LinesOf(st.Output, r, "pipe")) = 1
        /\ (\A q \in RunsOf(k) : Abandoned(q)) => ~st.HasRun

(***************************************************************************)
(* C10.  A run whose process exits with an error status or by a signal:    *)
(* the waiter sets Running to false and appends exactly one line "Process  *)
(* exited with error: <error>", and once every task of the run has         *)
(* finished that line is the last line of the log.  Stated for a run that  *)
(* is the only one of its key.                                             *)
(***************************************************************************)
FailedDone(r) ==
  /\ Started(r) /\ OnlyRun(r) /\ RunDone(r)
  /\ proc[r] = "exited" /\ RunErr(r) # ""

\* C10: the log of a finished failed run ends with its single error line,
\* and Running is false.
C10_ErrorLineLast ==
  \A r \in Runs :
    FailedDone(r) =>
      LET st == processStates[runKey[r]] IN
        /\ ~st.Running
        /\ Cardinality(LinesOf(st.Output, r, "exit")) = 1
        /\ Last(st.Output) =
             Line(r, "exit", "Process exited with error: " \o RunErr(r))

(***************************************************************************)
(* C11.  Running is set, and its hand-off made, before any captured line   *)
(* of the run reaches the log: the capture tasks are launched (lines       *)
(* 553-554) after the locked region of lines 547-550 and the fyne.Do of    *)
(* line 552.                                                               *)
(***************************************************************************)
\* The region of lines 547-550 has run for r (Cmd only grows for a key),
\* and the hand-off of line 552 has been made.
RunningWasSet(r) ==
  /\ processStates[runKey[r]].Cmd >= r
  /\ notes[r]["start"] = 1

IsCaptured(e) == e.src \in Streams

\* C11: every captured line in a log belongs to a run for which Running had
\* been set to true and the notification handed off, and a capture task
\* exists only for such a run.
C11_RunningBeforeOutput ==
  /\ \A k \in Keys :
       \A i \in 1..Len(processStates[k].Output) :
         LET e == processStates[k].Output[i] IN
           IsCaptured(e) => RunningWasSet(e.run)
  /\ \A r \in Runs :
       (\E s \in Streams : capture[r][s].pc # "none") => RunningWasSet(r)

C11_Witness ==
  \E r \in Runs :
    LET st == processStates[runKey[r]] IN
      /\ Started(r)
      /\ LogOwner(runKey[r]) = r
      /\ st.Cmd = r
      /\ st.Running
      /\ proc[r] = "alive"
      /\ LinesOf(st.Output, r, "stdout") # {}

(***************************************************************************)
(* C12.  The terminal notification of a run is the last notification of    *)
(* that run.  The stop branch hands off at line 523 and the waiter of the  *)
(* same run hands off at line 566, in either order.                        *)
(***************************************************************************)
\* A hand-off made after Running was set to false for run r.
Terminal(r) == notes[r]["stop"] + notes[r]["exit"]

\* C12: once a notification has reported run r as no longer running, no
\* further notification of run r is handed off.
C12_TerminalNotificationLast ==
  [][\A r \in Runs : Terminal(r) > 0 => notes'[r] = notes[r]]_vars

(***************************************************************************)
(* C17.  From the reset of a start (lines 525-528) until the next start,   *)
(* the log holds only lines of the run that reset it.  The capture tasks   *)
(* and the waiter of an earlier run look the state up by key (lines 609    *)
(* and 558) and append to whatever log the key has now.                    *)
(***************************************************************************)
\* C17: every captured line and every terminal line of a log belongs to the
\* run whose start reset the log.
C17_LogOfOneRun ==
  \A k \in Keys :
    \A i \in 1..Len(processStates[k].Output) :
      LET e == processStates[k].Output[i] IN
        (IsCaptured(e) \/ e.src = "exit") => e.run = LogOwner(k)

(***************************************************************************)
(* C13.  Every access to the fields of a ProcessState is made by the task  *)
(* that holds its Mutex.  The tap handler reads state.Running at line 516  *)
(* before any Lock(), so the read can fall inside the region of lines      *)
(* 558-565 in which the waiter writes Running.  Stated for Detail.         *)
(***************************************************************************)
\* The tap handler reads Running of key k while the waiter holds the Mutex.
RacingRead(k) == TapStop(k) /\ mutex[k].task = "waiter"

\* C13: no task reads a field of a state while another task is inside a
\* locked region that writes it.
C13_NoReadDuringWrite == [][\A k \in DetailKeys : ~RacingRead(k)]_vars

(***************************************************************************)
(* C14.  createRowWidget creates the state of a key on the first reference *)
(* (lines 478-482) and leaves an existing state alone; nothing removes or  *)
(* replaces an entry of processStates.  Stated for Detail.                 *)
(***************************************************************************)
\* The first reference creates the state with its initial fields.
CreatedInitial ==
  \A k \in DOMAIN processStates' :
    k \notin DOMAIN processStates => processStates'[k] = NewProcessState

\* A later reference leaves every state as it is.
LaterReference ==
  \A k \in DetailKeys :
    (BuildRow(k) /\ k \in DOMAIN processStates) =>
      processStates' = processStates

\* No step removes an entry, and only the holder of the Mutex of a state
\* changes its fields.
EntryKept ==
  \A k \in DOMAIN processStates :
    /\ k \in DOMAIN processStates'
    /\ processStates'[k] # processStates[k] => mutex[k] # Free

\* A key has a state exactly when a row was built for it.
RowsHaveState == DOMAIN processStates = DOMAIN rows

\* C14: the state of a key is created once, with Running false, HasRun
\* false and the log of the single "no logs" line, and later references,
\* starts, stops and exits keep the entry.
C14_Registry ==
  /\ []RowsHaveState
  /\ [][CreatedInitial]_vars
  /\ [][LaterReference]_vars
  /\ [][EntryKept]_vars

C14_Witness ==
  \E k \in DOMAIN processStates :
    /\ rows[k] = MaxRows
    /\ processStates[k].HasRun
    /\ processStates[k].Cmd # 0
    /\ RunDone(processStates[k].Cmd)
    /\ Len(processStates[k].Output) > 1

(***************************************************************************)
(* C15.  The key of a row is Title-Description (line 477), where Title is  *)
(* the command name and Description is "Exec [Args]" (lines 450-451): the  *)
(* tab name is not part of it.  Stated for KeySpec.                        *)
(***************************************************************************)
AllRowsBuilt == conf.Tabs # <<>> /\ conf.built = 1..Len(conf.Tabs)

\* C15: the commands of a configuration have distinct keys, so each command
\* has a state of its own.
C15_DistinctKeys ==
  AllRowsBuilt =>
    /\ \A i, j \in conf.built :
         i # j => processKey(conf.tabsData[i]) # processKey(conf.tabsData[j])
    /\ Cardinality(DOMAIN processStates) = Len(conf.Tabs)

(***************************************************************************)
(* C16.  The logs button copies Output under the lock (lines 571-575) and  *)
(* hands the copy to showLogsDialog: the copy is the log of that moment,   *)
(* and no later append or reset changes it.  Stated for LogSpec.           *)
(***************************************************************************)
\* The copy is the whole log of the state, in order.
CopyOfLog ==
  \A k \in DetailKeys :
    LogsTapped(k) =>
      shown' = [key |-> k, lines |-> processStates[k].Output]

\* A second copy with no mutation in between equals the first.
SameAgain ==
  \A k \in DetailKeys :
    (/\ LogsTapped(k)
     /\ shown.key = k
     /\ shown.lines = processStates[k].Output) => shown'.lines = shown.lines

\* Only the logs button replaces the copy.
CopyKept == shown' # shown => \E k \in DetailKeys : LogsTapped(k)

C18_CapturedInOrder ==
  \A r \in Runs :
    (Started(r) /\ OnlyRun(r) /\ RunDone(r) /\ proc[r] = "exited") =>
      CapturedAll(processStates[runKey[r]].Output, r)

(***************************************************************************)
(* C19.  No deadlock: a task holds a Mutex only inside a locked region,    *)
(* never while it is blocked in cmd.Run() or scanner.Scan(); fyne.Do does  *)
(* not wait and is called after Unlock at each site.  Every task that has  *)
(* reached a Lock() gets the Mutex.  Stated for FairDetail.                *)
(***************************************************************************)
\* Task t is inside a call that waits for the process or for its output.
Blocked(t) ==
  IF t.task = "waiter" THEN waiter[t.run] \in {"run", "wait"}
  ELSE IF t.task = "capture"
    THEN /\ capture[t.run][t.stream].pc = "scan"
         /\ ~LineReady(t.run, t.stream)
         /\ ~PipesClosed(t.run)
         /\ proc[t.run] \notin {"exited", "failed"}
  ELSE FALSE

\* The locked region of task t on key k.
RegionOf(t, k) ==
  IF t.task = "ui" THEN UIRegion(k)
  ELSE IF t.task = "waiter" THEN WaiterRegion(t.run)
  ELSE CaptureRegion(t.run, t.stream)

\* The holder of a Mutex is not blocked and can run its region to Unlock.
HolderRuns ==
  \A k \in DetailKeys :
    mutex[k] # Free =>
      /\ ~Blocked(mutex[k])
      /\ ENABLED RegionOf(mutex[k], k)

\* While a task waits at a Lock(), some step can be taken.
NoDeadlock ==
  (\E t \in Tasks : \E k \in DetailKeys : LockPoint(t, k) /\ mutex[k] # t)
    => ENABLED DetailNext

\* A task that has reached a Lock() gets the Mutex (a capture task may find
\* the end of its stream instead).
GetsLock(t, k) ==
  (LockPoint(t, k) /\ (t = UI => HandlerPoint(k)))
    ~> (mutex[k] = t \/ ~LockPoint(t, k))

\* C19: no task holds a Mutex while it is blocked, the holder can always
\* finish its region, and the handlers and goroutines that wait for a Mutex
\* get it.
C19_NoDeadlock ==
  /\ []HolderRuns
  /\ []NoDeadlock
  /\ \A t \in Tasks : \A k \in DetailKeys : GetsLock(t, k)

\* The waiter waits for the Mutex that a capture task of its run holds.
C19_Witness ==
  \E r \in DetailRuns : \E s \in Streams :
    /\ Started(r)
    /\ mutex[runKey[r]] = CaptureOf(r, s)
    /\ WaiterLockPoint(r)
    /\ ui.pc = "stop"

(***************************************************************************)
(* C20.  Under fair scheduling every run whose process has ended (by       *)
(* itself, after the kill of a stop, or because it could not be spawned)   *)
(* reaches the state where its waiter has written and handed off, and both *)
(* capture tasks have returned, which closes their readers (line 603).     *)
(* Stated for FairDetail.                                                  *)
(***************************************************************************)
Ended(r) == proc[r] \in {"exited", "failed"}

Finished(r) ==
  /\ waiter[r] = "done"
  /\ notes[r]["exit"] = 1
  /\ \A s \in Streams : capture[r][s].pc = "done"

\* C20: a run whose process has ended is eventually finished, and the step
\* of the waiter that finishes it sets Running to false and appends the
\* terminal line.
C20_RunFinishes ==
  /\ \A r \in DetailRuns : Ended(r) ~> Finished(r)
  /\ [][WaiterWriteEffect]_vars

\* A run killed by a stop has finished.
C20_Witness ==
  \E r \in DetailRuns :
    /\ Finished(r)
    /\ killed[r]
    /\ ~processStates[runKey[r]].Running
    /\ Last(processStates[runKey[r]].Output).src = "exit"

====
